---- MODULE Spec2Model ----
(***************************************************************************)
(* Model of Dzaakk/rate-limiter: the lazy-TTL engine (internal/limiter     *)
(* Limiter.Allow) over the in-memory MemoryStore and over the RedisStore,  *)
(* the middleware in front of it, the epoch-truncated engine (limiter      *)
(* RateLimiter / fixedWindow) and the in-process FixedWindowLimiter.       *)
(*                                                                         *)
(*   Spec       Limiter.Allow over MemoryStore, with the background sweep  *)
(*   SpecStore  MemoryStore called directly: Increment, Get, the sweep     *)
(*   SpecRedis  Limiter.Allow over RedisStore, with storage faults         *)
(*   SpecConfig Limiter.Allow for clients with a malformed configuration   *)
(*   SpecGet    Increment and Get called directly on both stores           *)
(*   SpecFW     RateLimiter.Allow (fixedWindow) over the Redis backend     *)
(*   SpecFWL    FixedWindowLimiter.AllowN with its background cleanup      *)
(*   SpecPair   one sequential caller making each call on both stores      *)
(*   SpecSweepFair  MemoryStore Increment and sweep, fairly scheduled      *)
(*   SpecTeardown   MemoryStore until its owner lets go of it              *)
(*   SpecFWSet  RateLimiter.Allow while SetLimit changes a limit           *)
(*   SpecSeqStore   MemoryStore with one caller and the sweep               *)
(*   SpecFWLAny FixedWindowLimiter.AllowN called with any n                *)
(*   SpecFWLGet FixedWindowLimiter AllowN and GetResult, any Config        *)
(*                                                                         *)
(* Every caller is a goroutine; a step of the model is one statement (or   *)
(* one run of statements that touches no shared state) of the source.      *)
(*                                                                         *)
(* Time is a discrete clock.  The Go zero time.Time{} is instant 0 and     *)
(* the clock starts at 1, so time.Time{}.Before(now) holds for every now   *)
(* the program can read.  Durations are numbers of clock ticks.            *)
(***************************************************************************)
EXTENDS Integers, Sequences, FiniteSets, TLC

\* ------------------------------------------------------------------ bounds
NumProcs == 2
MaxCalls == 3
MaxTime  == 4

\* --------------------------------------------------------------- constants
Procs    == 1..NumProcs
ZeroTime == 0
NoEntry  == 0
NoProc   == 0
NoTTL    == 0
NoKey    == [exists |-> FALSE, val |-> 0, exp |-> NoTTL]
Times    == 1..MaxTime

\* the cfgs handed to NewLimiter: one configured client.
\* "u1" is a client identifier with no entry in the table.
Clients == {"c1", "u1"}

\* clients whose entry in the table is malformed: a zero limit, a zero
\* window, a negative limit.  NewLimiter stores the table as it is given.
BadClients == {"z0", "w0", "n1"}

Configs ==
    [c \in {"c1"} \cup BadClients |->
        CASE c = "c1" -> [Limit |-> 1, Window |-> 2]
          [] c = "z0" -> [Limit |-> 0, Window |-> 1]
          [] c = "w0" -> [Limit |-> 1, Window |-> 0]
          [] c = "n1" -> [Limit |-> -1, Window |-> 1]]

\* config.Clients, the package-level table (part_000 15-18).  main hands
\* this table to NewLimiter; the middleware tests hand NewLimiter a table of
\* their own, and so does the model: Configs above is the Limiter's table,
\* and of its clients only "u1" is in config.Clients.
configClients == [c \in {"u1"} |-> [Limit |-> 1, Window |-> 2]]

\* config.DefaultConfig, scaled from {100, time.Minute} to model size.
DefaultConfig == [Limit |-> 2, Window |-> 3]

\* ttl arguments used by direct callers of Store.Increment
TTLs == {1, 2}

\* FixedWindowLimiter: the Config handed to NewFixedWindowLimiter, the keys
\* its callers use and the n they pass to AllowN
FWLConfig == [Limit |-> 2, Window |-> 1]

\* the Configs a FixedWindowLimiter is built with where the Config is an
\* input: NewFixedWindowLimiter checks neither field
FWLConfigs == {FWLConfig, [Limit |-> 0, Window |-> 1]}
FWLKeys == {"a"}
Ns == {1, 2}

\* AllowN takes n as an int and does not look at its sign or size: callers
\* that also pass a negative n, zero, and an n above the Limit
AnyNs == {-1, 0, 1, 3}

\* RateLimiter (the epoch-truncated engine): the default limit handed to
\* NewRateLimiter and the per-client limits stored by SetLimit before the
\* traffic starts.  A Window counts clock ticks; TicksPerSecond ticks make
\* one second, so "s1" has a window of half a second; "b0" and "bw" have a
\* limit that fixedWindow.Allow rejects (no requests, no window).
TicksPerSecond == 2
FWClients == {"d1", "s1", "b0", "bw"}
defaultLimit == [Requests |-> 2, Window |-> 2]
setupLimits ==
    [c \in {"s1", "b0", "bw"} |->
        CASE c = "s1" -> [Requests |-> 1, Window |-> 1]
          [] c = "b0" -> [Requests |-> 0, Window |-> 2]
          [] c = "bw" -> [Requests |-> 1, Window |-> 0]]

\* the ClientLimit values SetLimit is called with while traffic runs, and
\* the client it is called for
SetLimitValues == {[Requests |-> 1, Window |-> 1], [Requests |-> 3, Window |-> 4]}
SetLimitClients == {"d1"}

VARIABLES
    clock,    \* time.Now()
    mu,       \* MemoryStore.mu: [writer, readers]
    m,        \* MemoryStore.m: key -> entry id (NoEntry when the key is absent)
    heap,     \* the allocated *Entry objects: id -> [Count, Expiry]
    hist,     \* per Entry object: history of the calls made on it
    pc,       \* per caller: position in the operation it runs
    call,     \* per caller: locals of the running operation
    res,      \* what the most recently completed operation returned
    ncalls,   \* operations started so far
    spc,      \* cleanupLoop: position
    snow,     \* cleanupLoop: now
    rdb,      \* the Redis backend: key -> [exists, val, exp]
    fwl,      \* the FixedWindowLimiter: [mu, windows, wd, cpc, cnow]
    clientLimits, \* RateLimiter.clientLimits: client -> ClientLimit
    closed    \* the owner of the MemoryStore has let go of it

vars == <<clock, mu, m, heap, hist, pc, call, res, ncalls, spc, snow, rdb, fwl,
          clientLimits, closed>>

\* ----------------------------------------------------------- pure helpers
\* time.Time.Before
Before(a, b) == a < b

\* keyForClient: fmt.Sprintf("rate:%s", client)
keyForClient(client) == <<"rate", client>>

Keys == {keyForClient(c) : c \in Clients \cup BadClients}

\* RateLimiter.GetLimit: the client's own limit, else the default
GetLimit(clientID) ==
    IF clientID \in DOMAIN clientLimits THEN clientLimits[clientID]
    ELSE defaultLimit

\* a rounding to the nearest multiple (time.Time.Round)
TruncateNearest(t, d) ==
    IF d <= 0 THEN t ELSE ((t + d \div 2) \div d) * d

\* time.Time.Truncate: t rounded down to a multiple of d since the zero
\* time; t unchanged when d <= 0
Truncate(t, d) == IF d <= 0 THEN t ELSE t - (t % d)

\* time.Time.Unix: whole seconds since the epoch (the epoch is tick 0)
Unix(t) == t \div TicksPerSecond

\* fixedWindow.windowStart
windowStart(t, window) == Truncate(t, window)

\* fixedWindow.generateKey: fmt.Sprintf("reatelimit:%s:%d", ClientID, ws.Unix())
generateKey(ClientID, t, window) ==
    <<"reatelimit", ClientID, Unix(windowStart(t, window))>>

\* the keys fixedWindow.Allow can write
FWKeys ==
    {generateKey(c, t, v.Window) :
        c \in FWClients, t \in 1..MaxTime,
        v \in {defaultLimit} \cup {setupLimits[d] : d \in DOMAIN setupLimits}
                \cup SetLimitValues}

\* the key the direct callers of the store contend on
StoreKeys == {keyForClient("c1")}

\* a resolution that ignores the per-client table
ResolveConfigDefaultOnly(client) == DefaultConfig

\* Limiter.Allow lines 29-32: explicit entry, else config.DefaultConfig
ResolveConfig(client) ==
    IF client \in DOMAIN Configs THEN Configs[client] ELSE DefaultConfig

\* an admission test on the count before this call's increment
AllowedPre(counter, limit) == counter - 1 <= limit

\* Limiter.Allow line 43
Allowed(counter, limit) == counter <= limit

\* remaining without the clamp at zero
RemainingUnclamped(counter, limit) == limit - counter

\* Limiter.Allow lines 44-47
Remaining(counter, limit) ==
    IF limit - counter < 0 THEN 0 ELSE limit - counter

\* Limiter.Allow lines 49-53
ResetAt(expiry, now) == IF Before(expiry, now) THEN ZeroTime ELSE expiry

\* a fail-closed decision on a storage error
ErrDecisionFailClosed(cfg) ==
    [allowed |-> FALSE, remaining |-> 0, resetAt |-> ZeroTime, err |-> TRUE]

\* Limiter.Allow lines 39-41: the decision returned when Increment failed
ErrDecision(cfg) ==
    [allowed |-> TRUE, remaining |-> cfg.Limit, resetAt |-> ZeroTime,
     err |-> TRUE]

\* Limiter.Allow lines 43-53: the decision on the success path
OkDecision(cfg, counter, expiry, now) ==
    [allowed   |-> Allowed(counter, cfg.Limit),
     remaining |-> Remaining(counter, cfg.Limit),
     resetAt   |-> ResetAt(expiry, now),
     err       |-> FALSE]

\* Limiter.Allow lines 38-53: what Allow returns for what Increment returned
AllowDecision(cfg, counter, expiry, err, now) ==
    IF err THEN ErrDecision(cfg) ELSE OkDecision(cfg, counter, expiry, now)

\* no response written: the state of the ResponseWriter before Handler runs
NoResponse ==
    [status |-> 0, next |-> FALSE, headers |-> FALSE,
     remaining |-> 0, resetAt |-> ZeroTime, limit |-> 0]

\* a handler that looks at allowed only and lets the fail-open decision through
HandlerIgnoreErr(d) ==
    IF ~d.allowed
    THEN [status |-> 429, next |-> FALSE, headers |-> TRUE,
          remaining |-> d.remaining, resetAt |-> d.resetAt]
    ELSE [status |-> 200, next |-> TRUE, headers |-> TRUE,
          remaining |-> d.remaining, resetAt |-> d.resetAt]

\* RateLimitMiddleware.Handler lines 49-75: what the middleware answers for
\* the decision Allow returned.  next: the downstream handler was invoked
\* (it answers 200); headers: X-RateLimit-* were set; remaining, resetAt:
\* the values sent (a zero resetAt is left out of the response).
Handler(d) ==
    IF d.err
    THEN [NoResponse EXCEPT !.status = 500]
    ELSE IF ~d.allowed
    THEN [status |-> 429, next |-> FALSE, headers |-> TRUE,
          remaining |-> d.remaining, resetAt |-> d.resetAt]
    ELSE [status |-> 200, next |-> TRUE, headers |-> TRUE,
          remaining |-> d.remaining, resetAt |-> d.resetAt]

\* RateLimitMiddleware.getLimit (lines 98-103): read off config.Clients
getLimit(clientID) ==
    IF clientID \in DOMAIN configClients THEN configClients[clientID].Limit
    ELSE DefaultConfig.Limit

\* RateLimitMiddleware.setRateLimitHeaders (lines 87-91), called at line 56:
\* X-RateLimit-Limit for a response that carries the headers
setRateLimitHeaders(clientID, h) ==
    [f \in DOMAIN h \cup {"limit"} |->
        IF f = "limit" THEN (IF h.headers THEN getLimit(clientID) ELSE 0)
        ELSE h[f]]

\* MemoryStore.Increment line 51 / Get line 68: !ok || e == nil || e.Expiry.Before(now)
IsStale(id, now) == id = NoEntry \/ Before(heap[id].Expiry, now)

\* an entry created with a zero count
NewEntryZero(now, ttl) == [Count |-> 0, Expiry |-> now + ttl]

\* MemoryStore.Increment line 53: &Entry{Count: 1, Expiry: now.Add(ttl)}
NewEntry(now, ttl) == [Count |-> 1, Expiry |-> now + ttl]

\* MemoryStore.Increment line 59: atomic.AddInt64(&e.Count, 1)
AddInt64(count) == count + 1

\* an increment that also refreshes the expiry (a sliding window)
BumpEntryRefresh(e, now, ttl) == [Count |-> e.Count + 1, Expiry |-> now + ttl]

\* MemoryStore.Increment lines 59-60: the live entry after the call; only
\* Count changes, whatever now and ttl the caller brought
BumpEntry(e, now, ttl) == [e EXCEPT !.Count = AddInt64(@)]

\* a Lock() that excludes nobody
CanLockBroken == TRUE

\* sync.RWMutex: Lock() succeeds when nobody holds the mutex
CanLock == mu.writer = NoProc /\ mu.readers = {}

\* sync.RWMutex: RLock() succeeds when no writer holds the mutex
CanRLock == mu.writer = NoProc

\* ------------------------------------------------------------------- state
IdleCall ==
    [op |-> "none", client |-> "", key |-> <<>>, ttl |-> 0,
     anow |-> ZeroTime, now |-> ZeroTime, e |-> NoEntry, conc |-> FALSE,
     cnt |-> 0, dttl |-> 0, applied |-> FALSE, n |-> 0,
     limit |-> [Requests |-> 0, Window |-> 0]]

NoRes ==
    [op |-> "none", client |-> "", key |-> <<>>, ttl |-> 0,
     now |-> ZeroTime, count |-> 0, expiry |-> ZeroTime, err |-> FALSE,
     allowed |-> FALSE, remaining |-> 0, resetAt |-> ZeroTime,
     entry |-> NoEntry, found |-> NoEntry, k |-> 0, quiet |-> FALSE,
     applied |-> FALSE, failAt |-> "none", http |-> NoResponse,
     resetIn |-> 0, limitNow |-> [Requests |-> 0, Window |-> 0]]

Init ==
    /\ clock = 1
    /\ mu = [writer |-> NoProc, readers |-> {}]
    /\ m = [k \in Keys |-> NoEntry]
    /\ heap = <<>>
    /\ hist = <<>>
    /\ pc = [p \in Procs |-> "idle"]
    /\ call = [p \in Procs |-> IdleCall]
    /\ res = NoRes
    /\ ncalls = 0
    /\ spc = "wait"
    /\ snow = ZeroTime
    /\ rdb = [k \in Keys \cup FWKeys |-> NoKey]
    /\ fwl = [mu |-> NoProc, windows |-> [k \in FWLKeys |-> NoEntry],
              wd |-> <<>>, cpc |-> "wait", cnow |-> ZeroTime,
              config |-> FWLConfig]
    /\ clientLimits = setupLimits
    /\ closed = FALSE

\* NewFixedWindowLimiter stores the Config it is handed as it is
InitFWLConfig ==
    /\ clock = 1
    /\ mu = [writer |-> NoProc, readers |-> {}]
    /\ m = [k \in Keys |-> NoEntry]
    /\ heap = <<>>
    /\ hist = <<>>
    /\ pc = [p \in Procs |-> "idle"]
    /\ call = [p \in Procs |-> IdleCall]
    /\ res = NoRes
    /\ ncalls = 0
    /\ spc = "wait"
    /\ snow = ZeroTime
    /\ rdb = [k \in Keys \cup FWKeys |-> NoKey]
    /\ \E config \in FWLConfigs :
          fwl = [mu |-> NoProc, windows |-> [k \in FWLKeys |-> NoEntry],
                 wd |-> <<>>, cpc |-> "wait", cnow |-> ZeroTime,
                 config |-> config]
    /\ clientLimits = setupLimits
    /\ closed = FALSE

\* callers that are inside MemoryStore.Increment
InIncrement(p) == pc[p] \in {"inc_now", "inc_lock", "inc_lookup", "inc_create", "inc_add"}

\* a Get in flight stops being "after all increments" once an Increment starts
MarkConcurrent(p) ==
    [q \in Procs |-> IF q # p /\ call[q].op = "get"
                     THEN [call[q] EXCEPT !.conc = TRUE] ELSE call[q]]

\* time passes
Tick ==
    /\ clock < MaxTime
    /\ clock' = clock + 1
    /\ UNCHANGED <<clientLimits, closed, fwl, mu, m, heap, hist, pc, call, res, ncalls, spc, snow, rdb>>

\* ------------------------------------------------------- Limiter.Allow
\* lines 29-36: resolve the config, read now, derive key and ttl
AllowBegin(p, c, first) ==
    /\ pc[p] = "idle"
    /\ ncalls < MaxCalls
    /\ ncalls' = ncalls + 1
    /\ call' = [MarkConcurrent(p) EXCEPT ![p] =
                   [IdleCall EXCEPT !.op = "allow", !.client = c,
                                    !.key = keyForClient(c),
                                    !.ttl = ResolveConfig(c).Window,
                                    !.anow = clock]]
    /\ pc' = [pc EXCEPT ![p] = first]
    /\ UNCHANGED <<clientLimits, closed, fwl, clock, mu, m, heap, hist, res, spc, snow, rdb>>

\* Allow on a Limiter built over a MemoryStore
AllowStart(p, c) == AllowBegin(p, c, "inc_now")

\* Allow on a Limiter built over a RedisStore
AllowStartRedis(p, c) == AllowBegin(p, c, "r_now")

\* ------------------------------------------------ MemoryStore.Increment
\* a direct caller of Store.Increment(key, ttl); line 46 reads now
IncrementStart(p, key, ttl) ==
    /\ pc[p] = "idle"
    /\ ncalls < MaxCalls
    /\ ncalls' = ncalls + 1
    /\ call' = [MarkConcurrent(p) EXCEPT ![p] =
                   [IdleCall EXCEPT !.op = "inc", !.key = key, !.ttl = ttl,
                                    !.now = clock]]
    /\ pc' = [pc EXCEPT ![p] = "inc_lock"]
    /\ UNCHANGED <<clientLimits, closed, fwl, clock, mu, m, heap, hist, res, spc, snow, rdb>>

\* line 46, when Increment runs on behalf of Allow
IncNow(p) ==
    /\ pc[p] = "inc_now"
    /\ call' = [call EXCEPT ![p].now = clock]
    /\ pc' = [pc EXCEPT ![p] = "inc_lock"]
    /\ UNCHANGED <<clientLimits, closed, fwl, clock, mu, m, heap, hist, res, ncalls, spc, snow, rdb>>

\* an Increment that takes the lock shared
IncLockShared(p) ==
    /\ pc[p] = "inc_lock"
    /\ CanRLock
    /\ mu' = [mu EXCEPT !.readers = @ \cup {p}]
    /\ pc' = [pc EXCEPT ![p] = "inc_lookup"]
    /\ UNCHANGED <<clientLimits, closed, fwl, clock, m, heap, hist, call, res, ncalls, spc, snow, rdb>>

\* line 47: s.mu.Lock()
IncLock(p) ==
    /\ pc[p] = "inc_lock"
    /\ CanLock
    /\ mu' = [mu EXCEPT !.writer = p]
    /\ pc' = [pc EXCEPT ![p] = "inc_lookup"]
    /\ UNCHANGED <<clientLimits, closed, fwl, clock, m, heap, hist, call, res, ncalls, spc, snow, rdb>>

\* lines 50-51: e, ok := s.m[key]; branch on absent / expired
IncLookup(p) ==
    /\ pc[p] = "inc_lookup"
    /\ call' = [call EXCEPT ![p].e = m[call[p].key]]
    /\ pc' = [pc EXCEPT ![p] =
                 IF IsStale(m[call[p].key], call[p].now)
                 THEN "inc_create" ELSE "inc_add"]
    /\ UNCHANGED <<clientLimits, closed, fwl, clock, mu, m, heap, hist, res, ncalls, spc, snow, rdb>>

\* the caller's result record for a completed Increment, the decision
\* Limiter.Allow (lines 39-53) derives from it when the caller is Allow, and
\* the answer of the middleware that called Allow
Complete(p, id, count, expiry, k) ==
    LET c   == call[p]
        cfg == ResolveConfig(c.client)
        d   == AllowDecision(cfg, count, expiry, FALSE, c.anow)
        base == [NoRes EXCEPT !.op = c.op, !.client = c.client, !.key = c.key,
                              !.ttl = c.ttl, !.now = c.now, !.count = count,
                              !.expiry = expiry, !.entry = id, !.found = c.e,
                              !.k = k,
                              !.quiet = ~\E q \in Procs \ {p} : pc[q] # "idle"]
    IN  IF c.op = "allow"
        THEN [base EXCEPT !.allowed = d.allowed, !.remaining = d.remaining,
                          !.resetAt = d.resetAt, !.err = d.err,
                          !.http = setRateLimitHeaders(c.client, Handler(d))]
        ELSE base

\* lines 53-56 and the deferred Unlock: create the entry, return 1
IncCreate(p) ==
    /\ pc[p] = "inc_create"
    /\ LET e   == NewEntry(call[p].now, call[p].ttl)
           id  == Len(heap) + 1
           cur == m[call[p].key]
           r   == Complete(p, id, 1, e.Expiry, 1)
       IN  /\ heap' = Append(heap, e)
           /\ m' = [m EXCEPT ![call[p].key] = id]
           /\ hist' = Append(hist,
                  [key |-> call[p].key, born |-> call[p].now, ttl |-> call[p].ttl,
                   rets |-> <<1>>,
                   overLive |-> ~IsStale(cur, call[p].now),
                   overlapped |-> ~r.quiet,
                   allowRets |-> IF call[p].op = "allow" THEN 1 ELSE 0,
                   admitted |-> IF call[p].op = "allow" /\ r.allowed THEN 1 ELSE 0,
                   admAt |-> IF call[p].op = "allow" /\ r.allowed
                             THEN <<clock>> ELSE <<>>])
           /\ res' = r
    /\ mu' = [mu EXCEPT !.writer = NoProc]
    /\ pc' = [pc EXCEPT ![p] = "idle"]
    /\ call' = [call EXCEPT ![p] = IdleCall]
    /\ UNCHANGED <<clientLimits, closed, fwl, clock, ncalls, spc, snow, rdb>>

\* lines 59-60 and the deferred Unlock: bump the count of the live entry
IncAdd(p) ==
    /\ pc[p] = "inc_add"
    /\ LET id   == call[p].e
           e    == BumpEntry(heap[id], call[p].now, call[p].ttl)
           newv == e.Count
           r    == Complete(p, id, newv, e.Expiry, Len(hist[id].rets) + 1)
       IN  /\ heap' = [heap EXCEPT ![id] = e]
           /\ hist' = [hist EXCEPT
                  ![id].rets = Append(@, newv),
                  ![id].overlapped = @ \/ ~r.quiet,
                  ![id].allowRets = IF call[p].op = "allow" THEN @ + 1 ELSE @,
                  ![id].admitted = IF call[p].op = "allow" /\ r.allowed THEN @ + 1 ELSE @,
                  ![id].admAt = IF call[p].op = "allow" /\ r.allowed
                                THEN Append(@, clock) ELSE @]
           /\ res' = r
    /\ mu' = [mu EXCEPT !.writer = NoProc]
    /\ pc' = [pc EXCEPT ![p] = "idle"]
    /\ call' = [call EXCEPT ![p] = IdleCall]
    /\ UNCHANGED <<clientLimits, closed, fwl, clock, m, ncalls, spc, snow, rdb>>

\* ------------------------------------------------------ MemoryStore.Get
\* line 64: now := time.Now()
GetStart(p, key) ==
    /\ pc[p] = "idle"
    /\ ncalls < MaxCalls
    /\ ncalls' = ncalls + 1
    /\ call' = [call EXCEPT ![p] =
                   [IdleCall EXCEPT !.op = "get", !.key = key, !.now = clock,
                                    !.conc = \E q \in Procs : InIncrement(q)]]
    /\ pc' = [pc EXCEPT ![p] = "get_rlock"]
    /\ UNCHANGED <<clientLimits, closed, fwl, clock, mu, m, heap, hist, res, spc, snow, rdb>>

\* lines 65-67: RLock; e, ok := s.m[key]; RUnlock
GetRLock(p) ==
    /\ pc[p] = "get_rlock"
    /\ CanRLock
    /\ call' = [call EXCEPT ![p].e = m[call[p].key]]
    /\ pc' = [pc EXCEPT ![p] = "get_read"]
    /\ UNCHANGED <<clientLimits, closed, fwl, clock, mu, m, heap, hist, res, ncalls, spc, snow, rdb>>

\* a Get that evicts the expired entry it came across
GetReadEvict(p) ==
    /\ pc[p] = "get_read"
    /\ res' = [NoRes EXCEPT !.op = "get", !.key = call[p].key,
                            !.now = call[p].now, !.entry = call[p].e]
    /\ m' = [m EXCEPT ![call[p].key] =
                IF IsStale(call[p].e, call[p].now) THEN NoEntry ELSE @]
    /\ pc' = [pc EXCEPT ![p] = "idle"]
    /\ call' = [call EXCEPT ![p] = IdleCall]
    /\ UNCHANGED <<clientLimits, closed, fwl, clock, mu, heap, hist, ncalls, spc, snow, rdb>>

\* lines 68-72: absent or expired -> (0, zero, nil); else the loaded count
GetRead(p) ==
    /\ pc[p] = "get_read"
    /\ LET id    == call[p].e
           cur   == m[call[p].key]
           stale == IsStale(id, call[p].now)
       IN  res' =
               [NoRes EXCEPT !.op = "get", !.key = call[p].key,
                             !.now = call[p].now,
                             !.count = IF stale THEN 0 ELSE heap[id].Count,
                             !.expiry = IF stale THEN ZeroTime ELSE heap[id].Expiry,
                             !.entry = id, !.found = cur,
                             !.k = IF cur = NoEntry THEN 0 ELSE Len(hist[cur].rets),
                             !.quiet = ~call[p].conc]
    /\ pc' = [pc EXCEPT ![p] = "idle"]
    /\ call' = [call EXCEPT ![p] = IdleCall]
    /\ UNCHANGED <<clientLimits, closed, fwl, clock, mu, m, heap, hist, ncalls, spc, snow, rdb>>

\* ----------------------------------------------- MemoryStore.cleanupLoop
\* lines 29-30: the ticker fires, now := time.Now()
SweepTick ==
    /\ spc = "wait"
    /\ snow' = clock
    /\ spc' = "lock"
    /\ UNCHANGED <<clientLimits, closed, fwl, clock, mu, m, heap, hist, pc, call, res, ncalls, rdb>>

\* a sweep that goes on without the lock
SweepLockFree ==
    /\ spc = "lock"
    /\ spc' = "sweep"
    /\ UNCHANGED <<clientLimits, closed, fwl, clock, mu, m, heap, hist, pc, call, res, ncalls, snow, rdb>>

\* line 31: s.mu.Lock()
SweepLock ==
    /\ spc = "lock"
    /\ CanLock
    /\ mu' = [mu EXCEPT !.writer = NumProcs + 1]
    /\ spc' = "sweep"
    /\ UNCHANGED <<clientLimits, closed, fwl, clock, m, heap, hist, pc, call, res, ncalls, snow, rdb>>

\* a sweep that unlocks without deleting anything
SweepRunKeep ==
    /\ spc = "sweep"
    /\ mu' = [mu EXCEPT !.writer = NoProc]
    /\ spc' = "wait"
    /\ snow' = ZeroTime
    /\ UNCHANGED <<clientLimits, closed, fwl, clock, m, heap, hist, pc, call, res, ncalls, rdb>>

\* lines 32-41: delete every nil or expired entry, Unlock; now goes out of
\* scope until the next tick of the ticker
SweepRun ==
    /\ spc = "sweep"
    /\ m' = [k \in Keys |-> IF IsStale(m[k], snow) THEN NoEntry ELSE m[k]]
    /\ mu' = [mu EXCEPT !.writer = NoProc]
    /\ spc' = "wait"
    /\ snow' = ZeroTime
    /\ UNCHANGED <<clientLimits, closed, fwl, clock, heap, hist, pc, call, res, ncalls, rdb>>


\* The owner of the MemoryStore is done with it: no call is in flight and
\* none is made afterwards.  MemoryStore has no Close or Stop method
\* (memory.go 14-24), so letting go of the store is all a teardown can be;
\* cleanupLoop is told nothing.
Teardown ==
    /\ ~closed
    /\ \A p \in Procs : pc[p] = "idle"
    /\ closed' = TRUE
    /\ UNCHANGED <<clientLimits, fwl, clock, mu, m, heap, hist, pc, call, res, ncalls, spc, snow, rdb>>

\* ------------------------------------------------------------ Redis backend
\* The commands RedisStore issues through go-redis, as the Redis server
\* answers them.  A key with an expiry is gone once the clock reaches it.
RLive(key) ==
    rdb[key].exists /\ (rdb[key].exp = NoTTL \/ clock < rdb[key].exp)

\* INCR: a missing key counts from 0 and is created without a TTL
RedisIncr(key) ==
    IF RLive(key) THEN [rdb[key] EXCEPT !.val = @ + 1]
    ELSE [exists |-> TRUE, val |-> 1, exp |-> NoTTL]

\* TTL: -2 for a missing key, -1 for a key without expiry, else the time left
RedisTTL(key) ==
    IF ~RLive(key) THEN -2
    ELSE IF rdb[key].exp = NoTTL THEN -1
    ELSE rdb[key].exp - clock

\* EXPIRE: sets the expiry of an existing key, no effect on a missing one
RedisExpire(key, ttl) ==
    IF RLive(key) THEN [rdb[key] EXCEPT !.exp = clock + ttl] ELSE rdb[key]

\* ------------------------------------------------- RedisStore.Increment
\* the caller's result record for a completed RedisStore.Increment, the
\* decision Limiter.Allow (lines 38-53) derives from it, and the answer of
\* the middleware that called Allow
CompleteRedis(p, count, expiry, err, failAt) ==
    LET c   == call[p]
        cfg == ResolveConfig(c.client)
        d   == AllowDecision(cfg, count, expiry, err, c.anow)
        base == [NoRes EXCEPT !.op = c.op, !.client = c.client, !.key = c.key,
                              !.ttl = c.ttl, !.now = c.now, !.count = count,
                              !.expiry = expiry, !.applied = c.applied,
                              !.failAt = failAt, !.err = err]
    IN  IF c.op = "allow"
        THEN [base EXCEPT !.allowed = d.allowed, !.remaining = d.remaining,
                          !.resetAt = d.resetAt, !.err = d.err,
                          !.http = setRateLimitHeaders(c.client, Handler(d))]
        ELSE base

\* a direct caller of RedisStore.Increment(key, ttl); line 22 reads now
RIncrementStart(p, key, ttl) ==
    /\ pc[p] = "idle"
    /\ ncalls < MaxCalls
    /\ ncalls' = ncalls + 1
    /\ call' = [call EXCEPT ![p] =
                   [IdleCall EXCEPT !.op = "rinc", !.key = key, !.ttl = ttl,
                                    !.now = clock]]
    /\ pc' = [pc EXCEPT ![p] = "r_incr"]
    /\ UNCHANGED <<clientLimits, closed, fwl, clock, mu, m, heap, hist, res, spc, snow, rdb>>

\* line 22: now := time.Now()
RNow(p) ==
    /\ pc[p] = "r_now"
    /\ call' = [call EXCEPT ![p].now = clock]
    /\ pc' = [pc EXCEPT ![p] = "r_incr"]
    /\ UNCHANGED <<clientLimits, closed, fwl, clock, mu, m, heap, hist, res, ncalls, spc, snow, rdb>>

\* lines 26, 30: the pipeline's INCR runs at the backend
RPipeIncr(p) ==
    /\ pc[p] = "r_incr"
    /\ rdb' = [rdb EXCEPT ![call[p].key] = RedisIncr(call[p].key)]
    /\ call' = [call EXCEPT ![p].cnt = RedisIncr(call[p].key).val,
                            ![p].applied = TRUE]
    /\ pc' = [pc EXCEPT ![p] = "r_ttl"]
    /\ UNCHANGED <<clientLimits, closed, fwl, clock, mu, m, heap, hist, res, ncalls, spc, snow>>

\* lines 30-33: the pipeline cannot be sent (connectivity fault); nothing
\* ran at the backend and Increment returns (0, zero time, err)
RPipeFail(p) ==
    /\ pc[p] = "r_incr"
    /\ res' = CompleteRedis(p, 0, ZeroTime, TRUE, "pipeline")
    /\ pc' = [pc EXCEPT ![p] = "idle"]
    /\ call' = [call EXCEPT ![p] = IdleCall]
    /\ UNCHANGED <<clientLimits, closed, fwl, clock, mu, m, heap, hist, ncalls, spc, snow, rdb>>

\* lines 28, 30, 35-38: the pipeline's TTL runs; with a TTL on the key
\* Increment returns (counter, now + currentTTL) (lines 45-46)
RPipeTTL(p) ==
    /\ pc[p] = "r_ttl"
    /\ LET t == RedisTTL(call[p].key)
       IN  IF t = -1 \/ t = -2
           THEN /\ call' = [call EXCEPT ![p].dttl = t]
                /\ pc' = [pc EXCEPT ![p] = "r_expire"]
                /\ res' = res
           ELSE /\ res' =
                       CompleteRedis(p, call[p].cnt, call[p].now + t, FALSE, "none")
                /\ pc' = [pc EXCEPT ![p] = "idle"]
                /\ call' = [call EXCEPT ![p] = IdleCall]
    /\ UNCHANGED <<clientLimits, closed, fwl, clock, mu, m, heap, hist, ncalls, spc, snow, rdb>>

\* lines 39, 42: Expire succeeds; Increment returns (counter, now + ttl)
RExpire(p) ==
    /\ pc[p] = "r_expire"
    /\ rdb' = [rdb EXCEPT ![call[p].key] = RedisExpire(call[p].key, call[p].ttl)]
    /\ res' =
           CompleteRedis(p, call[p].cnt, call[p].now + call[p].ttl, FALSE, "none")
    /\ pc' = [pc EXCEPT ![p] = "idle"]
    /\ call' = [call EXCEPT ![p] = IdleCall]
    /\ UNCHANGED <<clientLimits, closed, fwl, clock, mu, m, heap, hist, ncalls, spc, snow>>

\* lines 39-41: Expire fails; Increment returns (counter, zero time, err)
RExpireFail(p) ==
    /\ pc[p] = "r_expire"
    /\ res' =
           CompleteRedis(p, call[p].cnt, ZeroTime, TRUE, "expire")
    /\ pc' = [pc EXCEPT ![p] = "idle"]
    /\ call' = [call EXCEPT ![p] = IdleCall]
    /\ UNCHANGED <<clientLimits, closed, fwl, clock, mu, m, heap, hist, ncalls, spc, snow, rdb>>

\* ------------------------------------------------------- RedisStore.Get
\* line 51: now := time.Now()
RGetStart(p, key) ==
    /\ pc[p] = "idle"
    /\ ncalls < MaxCalls
    /\ ncalls' = ncalls + 1
    /\ call' = [call EXCEPT ![p] =
                   [IdleCall EXCEPT !.op = "rget", !.key = key, !.now = clock]]
    /\ pc' = [pc EXCEPT ![p] = "rg_get"]
    /\ UNCHANGED <<clientLimits, closed, fwl, clock, mu, m, heap, hist, res, spc, snow, rdb>>

\* lines 55, 58-61, 66-70: the pipeline's GET runs; a missing key makes Exec
\* return redis.Nil and Get returns (0, zero time, nil)
RGetGet(p) ==
    /\ pc[p] = "rg_get"
    /\ IF RLive(call[p].key)
       THEN /\ call' = [call EXCEPT ![p].cnt = rdb[call[p].key].val]
            /\ pc' = [pc EXCEPT ![p] = "rg_ttl"]
            /\ res' = res
       ELSE /\ res' = CompleteRedis(p, 0, ZeroTime, FALSE, "none")
            /\ pc' = [pc EXCEPT ![p] = "idle"]
            /\ call' = [call EXCEPT ![p] = IdleCall]
    /\ UNCHANGED <<clientLimits, closed, fwl, clock, mu, m, heap, hist, ncalls, spc, snow, rdb>>

\* lines 58, 62-64: the pipeline cannot be sent; Get returns (0, zero, err)
RGetFail(p) ==
    /\ pc[p] = "rg_get"
    /\ res' = CompleteRedis(p, 0, ZeroTime, TRUE, "pipeline")
    /\ pc' = [pc EXCEPT ![p] = "idle"]
    /\ call' = [call EXCEPT ![p] = IdleCall]
    /\ UNCHANGED <<clientLimits, closed, fwl, clock, mu, m, heap, hist, ncalls, spc, snow, rdb>>

\* lines 56, 72-78: the pipeline's TTL runs; currentTTL <= 0 gives
\* (0, zero time, nil), else (counter, now + currentTTL)
RGetTTL(p) ==
    /\ pc[p] = "rg_ttl"
    /\ LET t == RedisTTL(call[p].key)
       IN  res' = IF t <= 0
                  THEN CompleteRedis(p, 0, ZeroTime, FALSE, "none")
                  ELSE CompleteRedis(p, call[p].cnt, call[p].now + t, FALSE, "none")
    /\ pc' = [pc EXCEPT ![p] = "idle"]
    /\ call' = [call EXCEPT ![p] = IdleCall]
    /\ UNCHANGED <<clientLimits, closed, fwl, clock, mu, m, heap, hist, ncalls, spc, snow, rdb>>

\* ------------------------------------------- FixedWindowLimiter.AllowN
\* The RWMutex l.mu is held shared only inside one step, so the model keeps
\* its exclusive holder only.  With the keys of FWLKeys the loop of
\* cleanupExpired visits one windowData.

\* line 40: now := time.Now()
AllowNStart(p, key, n) ==
    /\ pc[p] = "idle"
    /\ ncalls < MaxCalls
    /\ ncalls' = ncalls + 1
    /\ call' = [call EXCEPT ![p] =
                   [IdleCall EXCEPT !.op = "allown", !.key = key, !.n = n,
                                    !.now = clock]]
    /\ pc' = [pc EXCEPT ![p] = "fwl_rlock"]
    /\ UNCHANGED <<clientLimits, closed, fwl, clock, mu, m, heap, hist, res, spc, snow, rdb>>

\* lines 42-46: RLock; wd, exists := l.windows[key]; RUnlock
AllowNRLock(p) ==
    /\ pc[p] = "fwl_rlock"
    /\ fwl.mu = NoProc
    /\ call' = [call EXCEPT ![p].e = fwl.windows[call[p].key]]
    /\ pc' = [pc EXCEPT ![p] =
                 IF fwl.windows[call[p].key] = NoEntry
                 THEN "fwl_lock" ELSE "fwl_wdlock"]
    /\ UNCHANGED <<clientLimits, closed, fwl, clock, mu, m, heap, hist, res, ncalls, spc, snow, rdb>>

\* line 47: l.mu.Lock()
AllowNLock(p) ==
    /\ pc[p] = "fwl_lock"
    /\ fwl.mu = NoProc
    /\ fwl' = [fwl EXCEPT !.mu = p]
    /\ pc' = [pc EXCEPT ![p] = "fwl_create"]
    /\ UNCHANGED <<clientLimits, closed, clock, mu, m, heap, hist, call, res, ncalls, spc, snow, rdb>>

\* lines 49-56: re-check under the lock, create the windowData if the key
\* is still absent, Unlock
AllowNCreate(p) ==
    /\ pc[p] = "fwl_create"
    /\ LET key == call[p].key
           cur == fwl.windows[key]
           id  == Len(fwl.wd) + 1
       IN  IF cur = NoEntry
           THEN /\ fwl' = [fwl EXCEPT
                      !.wd = Append(@, [count |-> 0, startTime |-> call[p].now,
                                        mu |-> NoProc, key |-> key,
                                        orphan |-> FALSE]),
                      !.windows[key] = id,
                      !.mu = NoProc]
                /\ call' = [call EXCEPT ![p].e = id]
           ELSE /\ fwl' = [fwl EXCEPT !.mu = NoProc]
                /\ call' = [call EXCEPT ![p].e = cur]
    /\ pc' = [pc EXCEPT ![p] = "fwl_wdlock"]
    /\ UNCHANGED <<clientLimits, closed, clock, mu, m, heap, hist, res, ncalls, spc, snow, rdb>>

\* line 59: wd.mu.Lock()
AllowNWdLock(p) ==
    /\ pc[p] = "fwl_wdlock"
    /\ fwl.wd[call[p].e].mu = NoProc
    /\ fwl' = [fwl EXCEPT !.wd[call[p].e].mu = p]
    /\ pc' = [pc EXCEPT ![p] = "fwl_decide"]
    /\ UNCHANGED <<clientLimits, closed, clock, mu, m, heap, hist, call, res, ncalls, spc, snow, rdb>>

\* lines 62-65: a window that has run its length starts again at now
Rollover(w, now) ==
    IF now - w.startTime >= fwl.config.Window
    THEN [w EXCEPT !.startTime = now, !.count = 0]
    ELSE w

\* line 67: wd.count+n <= l.config.Limit
Fits(w, n) == w.count + n <= fwl.config.Limit

\* lines 62-72 and the deferred wd.mu.Unlock().  orphan records that an
\* admission was counted on a windowData that the map no longer holds.
AllowNDecide(p) ==
    /\ pc[p] = "fwl_decide"
    /\ LET id == call[p].e
           w1 == Rollover(fwl.wd[id], call[p].now)
           ok == Fits(w1, call[p].n)
           w2 == [w1 EXCEPT !.count = IF ok THEN @ + call[p].n ELSE @,
                            !.mu = NoProc,
                            !.orphan = @ \/ (ok /\ fwl.windows[call[p].key] # id)]
       IN  /\ fwl' = [fwl EXCEPT !.wd[id] = w2]
           /\ res' = [NoRes EXCEPT !.op = "allown", !.key = call[p].key,
                                   !.now = call[p].now, !.allowed = ok,
                                   !.entry = id, !.count = w2.count,
                                   !.found = fwl.windows[call[p].key]]
    /\ pc' = [pc EXCEPT ![p] = "idle"]
    /\ call' = [call EXCEPT ![p] = IdleCall]
    /\ UNCHANGED <<clientLimits, closed, clock, mu, m, heap, hist, ncalls, spc, snow, rdb>>

\* ------------------------------------- FixedWindowLimiter.GetResult
\* line 92: now := time.Now()
GetResultStart(p, key) ==
    /\ pc[p] = "idle"
    /\ ncalls < MaxCalls
    /\ ncalls' = ncalls + 1
    /\ call' = [call EXCEPT ![p] =
                   [IdleCall EXCEPT !.op = "getresult", !.key = key,
                                    !.now = clock]]
    /\ pc' = [pc EXCEPT ![p] = "gr_rlock"]
    /\ UNCHANGED <<clientLimits, closed, fwl, clock, mu, m, heap, hist, res, spc, snow, rdb>>

\* lines 99-104 and 111-116: the Result for a key that is absent or whose
\* window has run its length
FreshResult(p) ==
    [NoRes EXCEPT !.op = "getresult", !.key = call[p].key,
                  !.now = call[p].now, !.allowed = TRUE,
                  !.remaining = fwl.config.Limit,
                  !.resetAt = call[p].now + fwl.config.Window]

\* line 127: Allowed: wd.count < l.config.Limit
ResultAllowed(w) == w.count < fwl.config.Limit

\* lines 119-132: the Result for a window still running.  remaining is
\* computed and clamped at lines 119-122, and line 129 then fills the
\* Remaining field with l.config.Limit.
LiveResult(p, w) ==
    LET remaining == IF fwl.config.Limit - w.count < 0
                     THEN 0 ELSE fwl.config.Limit - w.count
        resetAt   == w.startTime + fwl.config.Window
    IN  [NoRes EXCEPT !.op = "getresult", !.key = call[p].key,
                      !.now = call[p].now, !.allowed = ResultAllowed(w),
                      !.remaining = fwl.config.Limit,
                      !.resetAt = resetAt, !.expiry = resetAt,
                      !.count = w.count]

\* lines 94-105: RLock; wd, exists := l.windows[key]; RUnlock; an absent
\* key is answered at once
GetResultRLock(p) ==
    /\ pc[p] = "gr_rlock"
    /\ fwl.mu = NoProc
    /\ IF fwl.windows[call[p].key] = NoEntry
       THEN /\ res' = FreshResult(p)
            /\ pc' = [pc EXCEPT ![p] = "idle"]
            /\ call' = [call EXCEPT ![p] = IdleCall]
       ELSE /\ call' = [call EXCEPT ![p].e = fwl.windows[call[p].key]]
            /\ pc' = [pc EXCEPT ![p] = "gr_wdlock"]
            /\ res' = res
    /\ UNCHANGED <<clientLimits, closed, fwl, clock, mu, m, heap, hist, ncalls, spc, snow, rdb>>

\* line 107: wd.mu.Lock()
GetResultWdLock(p) ==
    /\ pc[p] = "gr_wdlock"
    /\ fwl.wd[call[p].e].mu = NoProc
    /\ fwl' = [fwl EXCEPT !.wd[call[p].e].mu = p]
    /\ pc' = [pc EXCEPT ![p] = "gr_read"]
    /\ UNCHANGED <<clientLimits, closed, clock, mu, m, heap, hist, call, res, ncalls, spc, snow, rdb>>

\* lines 110-132 and the deferred wd.mu.Unlock(): nothing of wd is written
GetResultRead(p) ==
    /\ pc[p] = "gr_read"
    /\ LET id == call[p].e
           w  == fwl.wd[id]
       IN  /\ res' = [(IF call[p].now - w.startTime >= fwl.config.Window
                       THEN FreshResult(p) ELSE LiveResult(p, w))
                         EXCEPT !.entry = id,
                                !.found = fwl.windows[call[p].key]]
           /\ fwl' = [fwl EXCEPT !.wd[id].mu = NoProc]
    /\ pc' = [pc EXCEPT ![p] = "idle"]
    /\ call' = [call EXCEPT ![p] = IdleCall]
    /\ UNCHANGED <<clientLimits, closed, clock, mu, m, heap, hist, ncalls, spc, snow, rdb>>

\* ------------------------------------ FixedWindowLimiter.cleanupExpired
\* cleanup lines 141-142, cleanupExpired line 150: the ticker fires,
\* now := time.Now()
CleanupTick ==
    /\ fwl.cpc = "wait"
    /\ fwl' = [fwl EXCEPT !.cpc = "lock", !.cnow = clock]
    /\ UNCHANGED <<clientLimits, closed, clock, mu, m, heap, hist, pc, call, res, ncalls, spc, snow, rdb>>

\* line 152: l.mu.Lock()
CleanupLock ==
    /\ fwl.cpc = "lock"
    /\ fwl.mu = NoProc
    /\ fwl' = [fwl EXCEPT !.cpc = "sweep", !.mu = NumProcs + 1]
    /\ UNCHANGED <<clientLimits, closed, clock, mu, m, heap, hist, pc, call, res, ncalls, spc, snow, rdb>>

\* lines 155-161 and the deferred Unlock: under each wd.mu, delete the key
\* whose window started at least two windows ago
CleanupRun ==
    /\ fwl.cpc = "sweep"
    /\ \A k \in FWLKeys :
          fwl.windows[k] # NoEntry => fwl.wd[fwl.windows[k]].mu = NoProc
    /\ fwl' = [fwl EXCEPT
          !.windows = [k \in FWLKeys |->
              IF fwl.windows[k] # NoEntry
                 /\ fwl.cnow - fwl.wd[fwl.windows[k]].startTime
                       >= fwl.config.Window * 2
              THEN NoEntry ELSE fwl.windows[k]],
          !.mu = NoProc, !.cpc = "wait", !.cnow = ZeroTime]
    /\ UNCHANGED <<clientLimits, closed, clock, mu, m, heap, hist, pc, call, res, ncalls, spc, snow, rdb>>

\* --------------------------------------------------- fixedWindow.Allow
\* RateLimiter.Allow hands the call to fixedWindow.Allow (limiter.go 56-58)

\* lines 32, 38: every error return is (false, 0, 0, err)
FWError(p, failAt) ==
    [NoRes EXCEPT !.op = "fwallow", !.client = call[p].client,
                  !.key = call[p].key, !.now = call[p].now,
                  !.ttl = call[p].ttl, !.err = TRUE, !.failAt = failAt,
                  !.applied = call[p].applied]

\* a decision that asks GetLimit again for the limit it compares with
FWDecisionReread(p, count) ==
    LET limit == GetLimit(call[p].client)
        ws    == windowStart(call[p].now, limit.Window)
    IN  [NoRes EXCEPT !.op = "fwallow", !.client = call[p].client,
                      !.key = call[p].key, !.now = call[p].now,
                      !.ttl = call[p].ttl, !.count = count,
                      !.applied = call[p].applied,
                      !.limitNow = GetLimit(call[p].client),
                      !.remaining = Remaining(count, limit.Requests),
                      !.resetIn = (ws + limit.Window) - call[p].now,
                      !.allowed = Allowed(count, limit.Requests)]

\* lines 42-50: the decision for the count Incr returned, computed from the
\* limit read at line 23.  limitNow: what the table holds for the client at
\* the moment of the return.
FWDecision(p, count) ==
    LET limit == call[p].limit
        ws    == windowStart(call[p].now, limit.Window)
    IN  [NoRes EXCEPT !.op = "fwallow", !.client = call[p].client,
                      !.key = call[p].key, !.now = call[p].now,
                      !.ttl = call[p].ttl, !.count = count,
                      !.applied = call[p].applied,
                      !.limitNow = GetLimit(call[p].client),
                      !.remaining = Remaining(count, limit.Requests),
                      !.resetIn = (ws + limit.Window) - call[p].now,
                      !.allowed = Allowed(count, limit.Requests)]

\* lines 23-28 for a well-formed limit: now := time.Now().UTC(), the key
FWAllowStart(p, c) ==
    /\ pc[p] = "idle"
    /\ ncalls < MaxCalls
    /\ GetLimit(c).Requests > 0 /\ GetLimit(c).Window > 0
    /\ ncalls' = ncalls + 1
    /\ call' = [call EXCEPT ![p] =
                   [IdleCall EXCEPT !.op = "fwallow", !.client = c,
                        !.limit = GetLimit(c),
                        !.now = clock, !.ttl = GetLimit(c).Window,
                        !.key = generateKey(c, clock, GetLimit(c).Window)]]
    /\ pc' = [pc EXCEPT ![p] = "fw_incr"]
    /\ UNCHANGED <<clientLimits, closed, fwl, clock, mu, m, heap, hist, res, spc, snow, rdb>>

\* a validation that runs after the counter was incremented
FWAllowInvalidLate(p, c) ==
    /\ pc[p] = "idle"
    /\ ncalls < MaxCalls
    /\ GetLimit(c).Requests <= 0 \/ GetLimit(c).Window <= 0
    /\ ncalls' = ncalls + 1
    /\ LET key == generateKey(c, clock, GetLimit(c).Window)
       IN  rdb' = [rdb EXCEPT ![key] = RedisIncr(key)]
    /\ res' = [NoRes EXCEPT !.op = "fwallow", !.client = c, !.err = TRUE,
                            !.failAt = "config"]
    /\ UNCHANGED <<clientLimits, closed, fwl, clock, mu, m, heap, hist, pc, call, spc, snow>>

\* lines 23-26: Requests <= 0 or Window <= 0 is refused before any I/O
FWAllowInvalid(p, c) ==
    /\ pc[p] = "idle"
    /\ ncalls < MaxCalls
    /\ GetLimit(c).Requests <= 0 \/ GetLimit(c).Window <= 0
    /\ ncalls' = ncalls + 1
    /\ res' = [NoRes EXCEPT !.op = "fwallow", !.client = c, !.err = TRUE,
                            !.failAt = "config"]
    /\ UNCHANGED <<clientLimits, closed, fwl, clock, mu, m, heap, hist, pc, call, spc, snow, rdb>>

\* lines 30, 35, 42-50: Incr runs at the backend; a count other than 1
\* goes straight to the decision
FWIncr(p) ==
    /\ pc[p] = "fw_incr"
    /\ LET k == RedisIncr(call[p].key)
       IN  /\ rdb' = [rdb EXCEPT ![call[p].key] = k]
           /\ IF k.val = 1
              THEN /\ call' = [call EXCEPT ![p].cnt = 1, ![p].applied = TRUE]
                   /\ pc' = [pc EXCEPT ![p] = "fw_expire"]
                   /\ res' = res
              ELSE /\ res' = [FWDecision(p, k.val) EXCEPT !.applied = TRUE]
                   /\ pc' = [pc EXCEPT ![p] = "idle"]
                   /\ call' = [call EXCEPT ![p] = IdleCall]
    /\ UNCHANGED <<clientLimits, closed, fwl, clock, mu, m, heap, hist, ncalls, spc, snow>>

\* lines 30-33: Incr fails, nothing ran at the backend
FWIncrFail(p) ==
    /\ pc[p] = "fw_incr"
    /\ res' = FWError(p, "incr")
    /\ pc' = [pc EXCEPT ![p] = "idle"]
    /\ call' = [call EXCEPT ![p] = IdleCall]
    /\ UNCHANGED <<clientLimits, closed, fwl, clock, mu, m, heap, hist, ncalls, spc, snow, rdb>>

\* lines 35-36, 42-50: the first caller of the key sets its TTL
FWExpire(p) ==
    /\ pc[p] = "fw_expire"
    /\ rdb' = [rdb EXCEPT ![call[p].key] = RedisExpire(call[p].key, call[p].ttl)]
    /\ res' = FWDecision(p, call[p].cnt)
    /\ pc' = [pc EXCEPT ![p] = "idle"]
    /\ call' = [call EXCEPT ![p] = IdleCall]
    /\ UNCHANGED <<clientLimits, closed, fwl, clock, mu, m, heap, hist, ncalls, spc, snow>>

\* lines 36-39: Expire fails; the key keeps its count and has no TTL
FWExpireFail(p) ==
    /\ pc[p] = "fw_expire"
    /\ res' = FWError(p, "expire")
    /\ pc' = [pc EXCEPT ![p] = "idle"]
    /\ call' = [call EXCEPT ![p] = IdleCall]
    /\ UNCHANGED <<clientLimits, closed, fwl, clock, mu, m, heap, hist, ncalls, spc, snow, rdb>>

\* ------------------------------------------- one caller, both stores
\* A single sequential caller that holds a MemoryStore and a RedisStore and
\* makes every call on both at the same instant: goroutine 1 runs the
\* MemoryStore operation and goroutine 2 the RedisStore one, and the caller
\* goes on (or time passes) only when both have returned.
PairIdle == \A p \in Procs : pc[p] = "idle"

\* Increment(key, ttl) on both stores; each reads now on entry
PairIncrementStart(key, ttl) ==
    /\ PairIdle
    /\ ncalls < MaxCalls
    /\ ncalls' = ncalls + 1
    /\ call' = [call EXCEPT
                   ![1] = [IdleCall EXCEPT !.op = "inc", !.key = key,
                                           !.ttl = ttl, !.now = clock],
                   ![2] = [IdleCall EXCEPT !.op = "rinc", !.key = key,
                                           !.ttl = ttl, !.now = clock]]
    /\ pc' = [pc EXCEPT ![1] = "inc_lock", ![2] = "r_incr"]
    /\ UNCHANGED <<clientLimits, closed, fwl, clock, mu, m, heap, hist, res, spc, snow, rdb>>

\* Get(key) on both stores
PairGetStart(key) ==
    /\ PairIdle
    /\ ncalls < MaxCalls
    /\ ncalls' = ncalls + 1
    /\ call' = [call EXCEPT
                   ![1] = [IdleCall EXCEPT !.op = "get", !.key = key,
                                           !.now = clock],
                   ![2] = [IdleCall EXCEPT !.op = "rget", !.key = key,
                                           !.now = clock]]
    /\ pc' = [pc EXCEPT ![1] = "get_rlock", ![2] = "rg_get"]
    /\ UNCHANGED <<clientLimits, closed, fwl, clock, mu, m, heap, hist, res, spc, snow, rdb>>

\* time passes between two calls of the sequential caller
PairTick == PairIdle /\ Tick

\* RateLimiter.SetLimit (limiter.go 41-45): the assignment runs under
\* r.mu.Lock, GetLimit reads under r.mu.RLock, so each is one step
SetLimit(clientID, limit) ==
    /\ ncalls < MaxCalls
    /\ ncalls' = ncalls + 1
    /\ clientLimits' =
          [c \in DOMAIN clientLimits \cup {clientID} |->
              IF c = clientID THEN limit ELSE clientLimits[c]]
    /\ UNCHANGED <<closed, fwl, clock, mu, m, heap, hist, pc, call, res, spc, snow, rdb>>

\* ---------------------------------------------------------- specifications
\* Limiter.Allow over MemoryStore
Next ==
    \/ Tick
    \/ \E p \in Procs, c \in Clients : AllowStart(p, c)
    \/ \E p \in Procs : IncNow(p)
    \/ \E p \in Procs : IncLock(p)
    \/ \E p \in Procs : IncLookup(p)
    \/ \E p \in Procs : IncCreate(p)
    \/ \E p \in Procs : IncAdd(p)
    \/ SweepTick
    \/ SweepLock
    \/ SweepRun

Spec == Init /\ [][Next]_vars

\* MemoryStore driven directly: Increment(key, ttl), Get(key), the sweep
NextStore ==
    \/ Tick
    \/ \E p \in Procs, k \in StoreKeys, t \in TTLs : IncrementStart(p, k, t)
    \/ \E p \in Procs : IncLock(p)
    \/ \E p \in Procs : IncLookup(p)
    \/ \E p \in Procs : IncCreate(p)
    \/ \E p \in Procs : IncAdd(p)
    \/ \E p \in Procs, k \in StoreKeys : GetStart(p, k)
    \/ \E p \in Procs : GetRLock(p)
    \/ \E p \in Procs : GetRead(p)
    \/ SweepTick
    \/ SweepLock
    \/ SweepRun

SpecStore == Init /\ [][NextStore]_vars

\* MemoryStore under Increment and the sweep, with the scheduling its
\* goroutines get: the ticker of cleanupLoop keeps firing, and a goroutine
\* that can run its next statement, or take the lock it waits for, does so.
NextSweep ==
    \/ Tick
    \/ \E p \in Procs, k \in StoreKeys, t \in TTLs : IncrementStart(p, k, t)
    \/ \E p \in Procs : IncLock(p)
    \/ \E p \in Procs : IncLookup(p)
    \/ \E p \in Procs : IncCreate(p)
    \/ \E p \in Procs : IncAdd(p)
    \/ SweepTick
    \/ SweepLock
    \/ SweepRun

IncrementStep(p) == IncLock(p) \/ IncLookup(p) \/ IncCreate(p) \/ IncAdd(p)

SpecSweepFair ==
    /\ Init /\ [][NextSweep]_vars
    /\ WF_vars(SweepTick) /\ WF_vars(SweepLock) /\ WF_vars(SweepRun)
    /\ \A p \in Procs : WF_vars(IncrementStep(p))

\* MemoryStore from construction to teardown: callers use it until its
\* owner lets go of it
NextTeardown ==
    \/ Tick
    \/ \E p \in Procs, k \in StoreKeys, t \in TTLs :
          ~closed /\ IncrementStart(p, k, t)
    \/ \E p \in Procs : IncLock(p)
    \/ \E p \in Procs : IncLookup(p)
    \/ \E p \in Procs : IncCreate(p)
    \/ \E p \in Procs : IncAdd(p)
    \/ SweepTick
    \/ SweepLock
    \/ SweepRun
    \/ Teardown

SpecTeardown == Init /\ [][NextTeardown]_vars

\* MemoryStore with one caller that makes its calls one after the other,
\* while cleanupLoop runs beside it
NextSeqStore ==
    \/ Tick
    \/ \E k \in StoreKeys, t \in TTLs : IncrementStart(1, k, t)
    \/ IncLock(1)
    \/ IncLookup(1)
    \/ IncCreate(1)
    \/ IncAdd(1)
    \/ \E k \in StoreKeys : GetStart(1, k)
    \/ GetRLock(1)
    \/ GetRead(1)
    \/ SweepTick
    \/ SweepLock
    \/ SweepRun

SpecSeqStore == Init /\ [][NextSeqStore]_vars

\* Limiter.Allow over RedisStore, with storage faults
NextRedis ==
    \/ Tick
    \/ \E p \in Procs, c \in Clients : AllowStartRedis(p, c)
    \/ \E p \in Procs : RNow(p)
    \/ \E p \in Procs : RPipeIncr(p)
    \/ \E p \in Procs : RPipeFail(p)
    \/ \E p \in Procs : RPipeTTL(p)
    \/ \E p \in Procs : RExpire(p)
    \/ \E p \in Procs : RExpireFail(p)

SpecRedis == Init /\ [][NextRedis]_vars

\* Limiter.Allow over MemoryStore for the clients with a malformed entry.
\* The sweep is left to Spec: it removes only entries that Increment would
\* replace, and plays no part in how Allow treats the configuration.
NextConfig ==
    \/ Tick
    \/ \E p \in Procs, c \in BadClients : AllowStart(p, c)
    \/ \E p \in Procs : IncNow(p)
    \/ \E p \in Procs : IncLock(p)
    \/ \E p \in Procs : IncLookup(p)
    \/ \E p \in Procs : IncCreate(p)
    \/ \E p \in Procs : IncAdd(p)

SpecConfig == Init /\ [][NextConfig]_vars

\* one sequential caller making the same calls on both stores, no faults
NextPair ==
    \/ PairTick
    \/ \E k \in StoreKeys, t \in TTLs : PairIncrementStart(k, t)
    \/ \E k \in StoreKeys : PairGetStart(k)
    \/ \E p \in Procs : IncLock(p)
    \/ \E p \in Procs : IncLookup(p)
    \/ \E p \in Procs : IncCreate(p)
    \/ \E p \in Procs : IncAdd(p)
    \/ \E p \in Procs : GetRLock(p)
    \/ \E p \in Procs : GetRead(p)
    \/ \E p \in Procs : RPipeIncr(p)
    \/ \E p \in Procs : RPipeTTL(p)
    \/ \E p \in Procs : RExpire(p)
    \/ \E p \in Procs : RGetGet(p)
    \/ \E p \in Procs : RGetTTL(p)

SpecPair == Init /\ [][NextPair]_vars

\* both stores driven directly: Increment(key, ttl) and Get(key) on each
NextGet ==
    \/ Tick
    \/ \E p \in Procs, k \in StoreKeys, t \in TTLs : IncrementStart(p, k, t)
    \/ \E p \in Procs : IncLock(p)
    \/ \E p \in Procs : IncLookup(p)
    \/ \E p \in Procs : IncCreate(p)
    \/ \E p \in Procs : IncAdd(p)
    \/ \E p \in Procs, k \in StoreKeys : GetStart(p, k)
    \/ \E p \in Procs : GetRLock(p)
    \/ \E p \in Procs : GetRead(p)
    \/ \E p \in Procs, k \in StoreKeys, t \in TTLs : RIncrementStart(p, k, t)
    \/ \E p \in Procs : RPipeIncr(p)
    \/ \E p \in Procs : RPipeTTL(p)
    \/ \E p \in Procs : RExpire(p)
    \/ \E p \in Procs, k \in StoreKeys : RGetStart(p, k)
    \/ \E p \in Procs : RGetGet(p)
    \/ \E p \in Procs : RGetTTL(p)
    \/ \E p \in Procs : RGetFail(p)

SpecGet == Init /\ [][NextGet]_vars

\* FixedWindowLimiter: concurrent AllowN with the background cleanup
NextFWL ==
    \/ Tick
    \/ \E p \in Procs, k \in FWLKeys, n \in Ns : AllowNStart(p, k, n)
    \/ \E p \in Procs : AllowNRLock(p)
    \/ \E p \in Procs : AllowNLock(p)
    \/ \E p \in Procs : AllowNCreate(p)
    \/ \E p \in Procs : AllowNWdLock(p)
    \/ \E p \in Procs : AllowNDecide(p)
    \/ CleanupTick
    \/ CleanupLock
    \/ CleanupRun

SpecFWL == Init /\ [][NextFWL]_vars

\* FixedWindowLimiter.AllowN called with any n.  The cleanup goroutine is
\* left to SpecFWL: it changes no count and no window start.
NextFWLAny ==
    \/ Tick
    \/ \E p \in Procs, k \in FWLKeys, n \in AnyNs : AllowNStart(p, k, n)
    \/ \E p \in Procs : AllowNRLock(p)
    \/ \E p \in Procs : AllowNLock(p)
    \/ \E p \in Procs : AllowNCreate(p)
    \/ \E p \in Procs : AllowNWdLock(p)
    \/ \E p \in Procs : AllowNDecide(p)

SpecFWLAny == Init /\ [][NextFWLAny]_vars

\* FixedWindowLimiter, built with any of FWLConfigs, with callers of AllowN
\* and of GetResult, and the cleanup goroutine
NextFWLGet ==
    \/ Tick
    \/ \E p \in Procs, k \in FWLKeys, n \in Ns : AllowNStart(p, k, n)
    \/ \E p \in Procs : AllowNRLock(p)
    \/ \E p \in Procs : AllowNLock(p)
    \/ \E p \in Procs : AllowNCreate(p)
    \/ \E p \in Procs : AllowNWdLock(p)
    \/ \E p \in Procs : AllowNDecide(p)
    \/ \E p \in Procs, k \in FWLKeys : GetResultStart(p, k)
    \/ \E p \in Procs : GetResultRLock(p)
    \/ \E p \in Procs : GetResultWdLock(p)
    \/ \E p \in Procs : GetResultRead(p)
    \/ CleanupTick
    \/ CleanupLock
    \/ CleanupRun

SpecFWLGet == InitFWLConfig /\ [][NextFWLGet]_vars

\* RateLimiter.Allow (fixedWindow) over the Redis backend, with faults
NextFW ==
    \/ Tick
    \/ \E p \in Procs, c \in FWClients : FWAllowStart(p, c)
    \/ \E p \in Procs, c \in FWClients : FWAllowInvalid(p, c)
    \/ \E p \in Procs : FWIncr(p)
    \/ \E p \in Procs : FWIncrFail(p)
    \/ \E p \in Procs : FWExpire(p)
    \/ \E p \in Procs : FWExpireFail(p)

SpecFW == Init /\ [][NextFW]_vars

\* RateLimiter.Allow while SetLimit changes a client's limit
NextFWSet ==
    \/ Tick
    \/ \E p \in Procs, c \in FWClients : FWAllowStart(p, c)
    \/ \E p \in Procs, c \in FWClients : FWAllowInvalid(p, c)
    \/ \E p \in Procs : FWIncr(p)
    \/ \E p \in Procs : FWIncrFail(p)
    \/ \E p \in Procs : FWExpire(p)
    \/ \E p \in Procs : FWExpireFail(p)
    \/ \E c \in SetLimitClients, v \in SetLimitValues : SetLimit(c, v)

SpecFWSet == Init /\ [][NextFWSet]_vars

TypeOK ==
    /\ clock \in Times
    /\ mu.writer \in 0..(NumProcs + 1)
    /\ \A k \in Keys : m[k] \in 0..Len(heap)
    /\ Len(heap) = Len(hist)
    /\ ncalls \in 0..MaxCalls

\* ------------------------------------------------------------------ claims
Entries == 1..Len(hist)

ClientOfKey(key) == key[2]

\* the limit the configuration gives a client, read off the table directly
ConfiguredLimit(c) ==
    IF c \in DOMAIN Configs THEN Configs[c].Limit ELSE DefaultConfig.Limit

Min(a, b) == IF a < b THEN a ELSE b

RECURSIVE SumAdmitted(_, _)
\* admitted Allow calls over the entries 1..n that belong to key
SumAdmitted(key, n) ==
    IF n = 0 THEN 0
    ELSE (IF hist[n].key = key THEN hist[n].admitted ELSE 0) + SumAdmitted(key, n - 1)

RECURSIVE SumAllowCalls(_, _)
\* completed Allow calls over the entries 1..n that belong to key
SumAllowCalls(key, n) ==
    IF n = 0 THEN 0
    ELSE (IF hist[n].key = key THEN hist[n].allowRets ELSE 0) + SumAllowCalls(key, n - 1)

\* the first Entry object created for a key
FirstEntry(key) == CHOOSE id \in Entries :
    hist[id].key = key /\ \A j \in Entries : hist[j].key = key => id <= j

\* C1: during one entry lifetime at most Limit calls of Allow return
\* allowed=true with a nil error, and no entry is replaced while it is live,
\* so the lifetimes of a key's entries never overlap.
Thm_C1_NoOverAdmission ==
    \A id \in Entries :
        /\ hist[id].admitted <= ConfiguredLimit(ClientOfKey(hist[id].key))
        /\ ~hist[id].overLive

\* C1 witness: a call was denied on an entry that has admitted Limit calls
Wit_C1_LimitReached ==
    /\ res.op = "allow"
    /\ ~res.allowed /\ ~res.err
    /\ hist[res.entry].admitted = ConfiguredLimit(res.client)

\* C2: while the first window of a key is still open, n completed Allow
\* calls on that key admit exactly min(n, Limit) of them: all n when
\* Limit = n, and Limit of them with one denial when Limit = n - 1.
Thm_C2_ConcurrentExact ==
    \A key \in Keys :
        (\E id \in Entries : hist[id].key = key)
        /\ clock <= heap[FirstEntry(key)].Expiry
        => SumAdmitted(key, Len(hist))
             = Min(SumAllowCalls(key, Len(hist)),
                   ConfiguredLimit(ClientOfKey(key)))

\* C2 witness: callers overlapped on a key whose limit is one less than
\* their number; inside the key's first window all but the last were
\* admitted and the last was denied
Wit_C2_OneDenied ==
    /\ res.op = "allow"
    /\ res.client = "c1"
    /\ ~res.allowed
    /\ ~res.quiet
    /\ hist[res.entry].overlapped
    /\ clock <= heap[res.entry].Expiry
    /\ hist[res.entry].allowRets = ConfiguredLimit("c1") + 1
    /\ hist[res.entry].admitted = ConfiguredLimit("c1")

\* C3: the k-th Allow on an entry returns allowed = (k <= L) and
\* remaining = max(0, L - k); remaining is never negative.
Thm_C3_KthCall ==
    res.op = "allow" =>
        LET L == ConfiguredLimit(res.client)
            k == res.k
        IN  /\ res.count = k
            /\ res.allowed = (k <= L)
            /\ res.remaining = (IF k <= L THEN L - k ELSE 0)
            /\ res.remaining >= 0

\* C3 witness: the first call past the limit was denied with remaining 0
Wit_C3_FirstDenied ==
    /\ res.op = "allow"
    /\ res.k = ConfiguredLimit(res.client) + 1
    /\ ~res.allowed
    /\ res.remaining = 0

\* C4: an Increment that finds an entry with now >= expiry returns count 1
\* and the fresh expiry now + ttl.
Cex_C4_ElapsedResets ==
    (res.op = "inc" /\ res.found # NoEntry /\ heap[res.found].Expiry <= res.now)
    => (res.count = 1 /\ res.expiry = res.now + res.ttl)

\* C5: Get returns (0, zero time) for an absent key and for every entry
\* observed at now >= expiry.
Cex_C5_GetElapsed ==
    (res.op = "get" /\ (res.entry = NoEntry \/ heap[res.entry].Expiry <= res.now))
    => (res.count = 0 /\ res.expiry = ZeroTime /\ ~res.err)

\* C6: the counts returned on one entry are exactly 1, 2, .., n in order,
\* the entry holds n, only the creating call returned 1, no live entry
\* was replaced, and a Get issued after the increments completed, inside the
\* lifetime, returns n.
Thm_C6_Linearizable ==
    /\ \A id \in Entries :
          /\ \A i \in 1..Len(hist[id].rets) : hist[id].rets[i] = i
          /\ heap[id].Count = Len(hist[id].rets)
          /\ ~hist[id].overLive
    /\ (res.op = "get" /\ res.quiet /\ res.found # NoEntry
           /\ res.now < heap[res.found].Expiry)
       => (res.entry = res.found /\ res.count = res.k)

\* C6 witness: Increments overlapped on an entry and a later Get returned 2
Wit_C6_TwoThenGet ==
    /\ res.op = "get"
    /\ res.quiet
    /\ res.entry # NoEntry
    /\ hist[res.entry].overlapped
    /\ res.count = 2

\* C7: every Increment on an entry returns the expiry the creating call
\* gave it (its now + its ttl), whatever ttl the later calls pass.
Thm_C7_ExpiryUnchanged ==
    res.op = "inc" =>
        res.expiry = hist[res.entry].born + hist[res.entry].ttl

\* C7 witness: a later Increment passed another ttl than the creator's
Wit_C7_OtherTtl ==
    /\ res.op = "inc"
    /\ res.k >= 2
    /\ res.ttl # hist[res.entry].ttl
    /\ res.now > hist[res.entry].born

\* C8: when Increment fails, on either failure path, Allow returns
\* allowed=true, remaining = the client's limit, a zero resetAt and the error.
Thm_C8_FailOpen ==
    (res.op = "allow" /\ res.failAt # "none")
    => /\ res.err
       /\ res.allowed
       /\ res.remaining = ConfiguredLimit(res.client)
       /\ res.resetAt = ZeroTime

\* C8 witness: Expire failed after the pipelined INCR had succeeded, and
\* another caller is about to take the pipeline-error path
Wit_C8_ErrorPaths ==
    /\ res.op = "allow"
    /\ res.failAt = "expire"
    /\ res.err /\ res.allowed
    /\ \E q \in Procs : pc[q] = "r_incr"

\* C9: a store operation that returns an error has not advanced the counter.
Cex_C9_NoPartialIncrement ==
    res.err => ~res.applied

\* C10: a client with an explicit entry is decided by that entry's limit, an
\* unknown client by the default limit, and resolution never fails.
Thm_C10_EffectiveLimit ==
    res.op = "allow" =>
        /\ ~res.err
        /\ res.client = "c1" => res.allowed = (res.k <= Configs["c1"].Limit)
        /\ res.client = "u1" => res.allowed = (res.k <= DefaultConfig.Limit)

\* C10 witness: the unknown client was admitted for the first Limit requests
\* of the window and denied on the next
Wit_C10_UnknownClient ==
    /\ res.op = "allow"
    /\ res.client = "u1"
    /\ res.k = DefaultConfig.Limit + 1
    /\ ~res.allowed
    /\ hist[res.entry].admitted = DefaultConfig.Limit

\* C11: Allow for a client whose effective configuration has Limit <= 0 or
\* Window <= 0 returns a configuration error.
Cex_C11_ConfigError ==
    (res.op = "allow"
        /\ (ResolveConfig(res.client).Limit <= 0
              \/ ResolveConfig(res.client).Window <= 0))
    => res.err

\* C12: on the success path Allow returns a zero resetAt exactly when the
\* expiry the store returned is not after the now Allow read (expiry <= now),
\* and that expiry otherwise; a non-zero resetAt is strictly after now.
Cex_C12_ResetAtFuture ==
    [][\A p \in Procs :
          (call[p].op = "allow" /\ pc[p] # "idle" /\ pc'[p] = "idle"
              /\ ~res'.err)
          => LET now == call[p].anow
             IN  /\ res'.resetAt =
                       (IF res'.expiry <= now THEN ZeroTime ELSE res'.expiry)
                 /\ (res'.resetAt # ZeroTime => res'.resetAt > now)]_vars

\* C13: every decision of Allow has 0 <= remaining <= limit.
Cex_C13_RemainingInRange ==
    res.op = "allow" =>
        /\ 0 <= res.remaining
        /\ res.remaining <= ResolveConfig(res.client).Limit

\* C14: no step of a Get, on MemoryStore or on RedisStore, changes the
\* counter state: the map, the entries and the backend keys are after the
\* step what they were before it, so what any other call finds is the same
\* with the Get as without it.
Thm_C14_GetReadOnly ==
    [][\A p \in Procs :
          (pc'[p] # pc[p]
              /\ (call[p].op \in {"get", "rget"} \/ call'[p].op \in {"get", "rget"}))
          => (m' = m /\ heap' = heap /\ hist' = hist /\ rdb' = rdb)]_vars

\* C14 witness: a Get on the Redis store returned a positive count between
\* the INCR and the TTL of an Increment in flight on the same store
Wit_C14_GetBetween ==
    /\ res.op = "rget"
    /\ res.count >= 1
    /\ \E q \in Procs : call[q].op = "rinc" /\ pc[q] = "r_ttl"

\* C15: the middleware invokes the downstream handler iff Allow returned
\* allowed=true and a nil error; a denial is answered 429 carrying the
\* decision's remaining and reset values, an error is answered 500, and in
\* neither case is the handler invoked.
Thm_C15_MiddlewareGate ==
    res.op = "allow" =>
        /\ res.http.next <=> (res.allowed /\ ~res.err)
        /\ (~res.err /\ ~res.allowed) =>
               /\ res.http.status = 429
               /\ res.http.remaining = res.remaining
               /\ res.http.resetAt = res.resetAt
               /\ res.http.resetAt # ZeroTime
        /\ res.err => res.http.status = 500

\* C15 witness: the engine's fail-open decision (allowed=true with an error)
\* was answered 500 without invoking the handler, while a request of the
\* same client that is over the limit is about to be answered
Wit_C15_FailOpenBlocked ==
    /\ res.op = "allow"
    /\ res.err /\ res.allowed
    /\ res.http.status = 500
    /\ ~res.http.next
    /\ \E q \in Procs : pc[q] = "r_ttl" /\ call[q].cnt > ResolveConfig(call[q].client).Limit

\* a backend key that is live and carries an expiry
RHasExpiry(key) == RLive(key) /\ rdb[key].exp # NoTTL

\* C18: once a key has an expiry in the backend no step of an Increment moves
\* it to a later instant, and two successive successful Increments inside one
\* lifetime of the key report the same expiry instant.
Cex_C18_ExpiryFixed ==
    [][/\ \A k \in Keys :
             (RHasExpiry(k) /\ rdb'[k].exists) => rdb'[k].exp <= rdb[k].exp
       /\ \A q \in Procs :
             (pc[q] \in {"r_ttl", "r_expire"} /\ pc'[q] = "idle"
                 /\ ~res'.err
                 /\ res.op = "allow" /\ res.key = call[q].key
                 /\ ~res.err /\ clock < res.expiry)
             => res'.expiry = res.expiry]_vars

\* C17: every admission is counted on the windowData the map holds for the
\* key at that moment, and the windowData objects of one key whose windows
\* started at the same instant have admitted at most Limit between them.
Cex_C17_AdmitOnCurrent ==
    /\ \A i \in 1..Len(fwl.wd) : ~fwl.wd[i].orphan
    /\ \A i, j \in 1..Len(fwl.wd) :
          (i # j /\ fwl.wd[i].key = fwl.wd[j].key
              /\ fwl.wd[i].startTime = fwl.wd[j].startTime)
          => fwl.wd[i].count + fwl.wd[j].count <= FWLConfig.Limit

\* C16: every successful call of the epoch-truncated engine returns a
\* resetIn with 0 < resetIn <= window, and now + resetIn is the end of the
\* window that contains now: the window starts at a multiple of window, at
\* or before now, less than one window before the reset.
Thm_C16_ResetIn ==
    (res.op = "fwallow" /\ ~res.err) =>
        LET w  == GetLimit(res.client).Window
            ws == (res.now + res.resetIn) - w
        IN  /\ 0 < res.resetIn
            /\ res.resetIn <= w
            /\ ws % w = 0
            /\ ws <= res.now /\ res.now < ws + w

\* C16 witness: a call made one tick before the boundary of a window of two
\* ticks returned resetIn = 1
Wit_C16_MidWindow ==
    /\ res.op = "fwallow" /\ ~res.err
    /\ GetLimit(res.client).Window = 2
    /\ res.now % 2 = 1
    /\ res.resetIn = 1

\* C19: once no call is in flight, every key fixedWindow.Allow wrote and the
\* backend still holds carries a TTL.
Cex_C19_KeysCarryTTL ==
    (\A p \in Procs : pc[p] = "idle")
    => \A k \in FWKeys : RLive(k) => rdb[k].exp # NoTTL

\* C20: for one client, the key of a call in flight equals the key of the
\* last completed call exactly when both timestamps truncate to the same
\* window start.
Cex_C20_KeyPerGeneration ==
    \A p \in Procs :
        (call[p].op = "fwallow" /\ res.op = "fwallow" /\ res.failAt # "config"
            /\ res.client = call[p].client)
        => LET w == GetLimit(res.client).Window
           IN  (windowStart(res.now, w) = windowStart(call[p].now, w))
                 <=> (res.key = call[p].key)
\* C21: fixedWindow.Allow for a client whose limit has Requests <= 0 or
\* Window <= 0 returns an error with allowed = false before any backend
\* operation: the call never reaches Incr or Expire, and the step that
\* refuses it leaves every counter key as it was.
InvalidLimit(v) == v.Requests <= 0 \/ v.Window <= 0

Thm_C21_InvalidRefused ==
    /\ [](\A p \in Procs :
            pc[p] \in {"fw_incr", "fw_expire"} => ~InvalidLimit(call[p].limit))
    /\ [][ncalls' = ncalls + 1 =>
            \/ \E p \in Procs :
                  /\ pc[p] = "idle" /\ pc'[p] = "fw_incr"
                  /\ ~InvalidLimit(GetLimit(call'[p].client))
            \/ /\ pc' = pc /\ rdb' = rdb
               /\ res'.op = "fwallow" /\ res'.failAt = "config"
               /\ InvalidLimit(GetLimit(res'.client))
               /\ res'.err /\ ~res'.allowed]_vars

\* a client without a window was refused while other clients' counters exist
Wit_C21_RefusedAmongTraffic ==
    /\ res.op = "fwallow" /\ res.failAt = "config" /\ res.client = "bw"
    /\ \E k \in FWKeys : rdb[k].exists

RECURSIVE AdmittedIn(_, _, _, _)
\* Allow calls of key that were admitted at a clock reading in from..to,
\* over the entries 1..n
AdmittedIn(key, from, to, n) ==
    IF n = 0 THEN 0
    ELSE (IF hist[n].key = key
          THEN Cardinality({i \in DOMAIN hist[n].admAt :
                               hist[n].admAt[i] \in from..to})
          ELSE 0) + AdmittedIn(key, from, to, n - 1)

\* C22: for a client with limit L and window W, the requests Limiter.Allow
\* admits during any W consecutive clock readings never number more than
\* 2 x L.
Cex_C22_BurstBound ==
    \A c \in Clients, t \in Times :
        AdmittedIn(keyForClient(c), t, t + ResolveConfig(c).Window - 1,
                   Len(hist))
            <= 2 * ResolveConfig(c).Limit

\* C23: a sequential caller that makes the same Increment and Get calls on
\* a MemoryStore and on a RedisStore at the same instants, with no fault,
\* gets the same count from both at every call (a count of 0 from Get and
\* a count of 1 from Increment mean the entry was absent).
Cex_C23_SameContract ==
    [][(~PairIdle /\ PairIdle') => res.count = res'.count]_vars

\* the entries the map of the MemoryStore points at
Mapped == {m[k] : k \in Keys} \ {NoEntry}

\* C24: under every interleaving of Increment, Get and the sweep, the Entry
\* an Increment is about to add to is the one the map holds for its key,
\* and an Entry that was replaced or deleted from the map never changes
\* again.
Thm_C24_OneEntryPerKey ==
    /\ [](\A p \in Procs :
            pc[p] = "inc_add" =>
                call[p].e # NoEntry /\ call[p].e = m[call[p].key])
    /\ [][\A id \in 1..Len(heap) :
            id \notin Mapped => heap'[id] = heap[id]]_vars

\* an Increment holds the lock on an entry that the waiting sweep would
\* delete, while an earlier Entry of the key is already out of the map
Wit_C24_SweepWaits ==
    \E p \in Procs :
        /\ pc[p] = "inc_add" /\ spc = "lock"
        /\ IsStale(call[p].e, snow)
        /\ \E id \in 1..Len(heap) : id \notin Mapped

Thm_C26_ExpiredSwept ==
    \A k \in StoreKeys : \A id \in 1..MaxCalls :
        (m[k] = id /\ Before(heap[id].Expiry, clock)) ~> (m[k] # id)

\* the sweep has removed the expired entry of a key and nothing replaced it
Wit_C26_Removed ==
    \E k \in StoreKeys :
        /\ m[k] = NoEntry /\ Len(heap) >= 1
        /\ Before(heap[Len(heap)].Expiry, clock)

\* C27: once the MemoryStore is torn down the sweep stops: a cleanupLoop
\* that is waiting for its ticker never starts another pass, so it takes
\* the lock no more and deletes nothing.
Cex_C27_SweepStops ==
    [][(closed /\ spc = "wait") => spc' = "wait"]_vars

\* C28: a RedisStore call made for Allow respects the caller's deadline:
\* with a deadline one tick after Increment began (the now of line 22), the
\* caller is not still waiting for the backend's answer after that.
Cex_C28_DeadlineRespected ==
    \A p \in Procs :
        (call[p].op = "allow" /\ pc[p] \in {"r_incr", "r_ttl", "r_expire"})
            => clock <= call[p].now + 1

\* C29: the limit the middleware sends in X-RateLimit-Limit is the limit
\* the Limiter applied to the client, and the remaining it sends lies
\* between 0 and that limit.
Cex_C29_SurfacedLimit ==
    (res.op = "allow" /\ res.http.headers) =>
        /\ res.http.limit = ResolveConfig(res.client).Limit
        /\ res.http.remaining \in 0..res.http.limit

\* the limits GetLimit can return for a client: the one stored for it
\* before the traffic started or else the default, and the values SetLimit
\* is called with for it
LimitsOf(c) ==
    (IF c \in DOMAIN setupLimits THEN {setupLimits[c]} ELSE {defaultLimit})
        \cup (IF c \in SetLimitClients THEN SetLimitValues ELSE {})

\* C30: while SetLimit changes a client's limit, every successful decision
\* of RateLimiter.Allow comes from one ClientLimit value: the key, the TTL
\* given to Expire, the admission test, remaining and resetIn all agree with
\* the same value, one GetLimit could return for the client; and GetLimit
\* returns a whole value, never parts of two.
Thm_C30_OneSnapshot ==
    /\ \A c \in FWClients : GetLimit(c) \in LimitsOf(c)
    /\ (res.op = "fwallow" /\ ~res.err) =>
          \E v \in LimitsOf(res.client) :
              /\ res.key = generateKey(res.client, res.now, v.Window)
              /\ res.ttl = v.Window
              /\ res.resetIn =
                     (windowStart(res.now, v.Window) + v.Window) - res.now
              /\ res.remaining = Remaining(res.count, v.Requests)
              /\ res.allowed = Allowed(res.count, v.Requests)

\* a call returned its decision after SetLimit had replaced, while the call
\* was running, the limit it had read
Wit_C30_SetDuringCall ==
    /\ res.op = "fwallow" /\ ~res.err /\ res.client \in SetLimitClients
    /\ res.limitNow.Window # res.ttl

\* C31: with a limit of at least 1, no call, denied or not, moves the
\* expiry of an entry, and an Allow whose Increment runs at a time past the
\* expiry of the entry the map holds for the client (or finds none) starts a
\* new entry and returns allowed = true.
Thm_C31_AdmittedAgain ==
    /\ [][\A id \in 1..Len(heap) : heap'[id].Expiry = heap[id].Expiry]_vars
    /\ []((/\ res.op = "allow"
           /\ ResolveConfig(res.client).Limit >= 1
           /\ (res.found = NoEntry \/ Before(heap[res.found].Expiry, res.now)))
          => (/\ res.allowed /\ ~res.err
              /\ res.count = 1 /\ res.entry # res.found
              /\ res.expiry = res.now + ResolveConfig(res.client).Window))

\* a client was denied on an entry, and its Allow after that entry's expiry
\* was admitted on a new one
Wit_C31_DeniedThenAdmitted ==
    \E id \in 1..Len(hist) :
        /\ hist[id].allowRets > hist[id].admitted
        /\ res.op = "allow" /\ res.found = id /\ res.entry # id
        /\ res.allowed
        /\ Before(heap[id].Expiry, res.now)

\* the Entry the map would hold for a key had the sweep never run: the last
\* one an Increment created for it
LastEntry(key) ==
    IF \E id \in Entries : hist[id].key = key
    THEN CHOOSE id \in Entries :
            hist[id].key = key /\ \A j \in Entries : hist[j].key = key => j <= id
    ELSE NoEntry

\* C32: the sweep is invisible to a caller that makes Increment and Get
\* calls one after the other: whatever entry a call has looked up, it treats
\* it as it would treat the entry the map would hold without the sweep
\* (both expired or absent, or the same live entry), so it returns the same
\* count and expiry.
Cex_C32_SweepTransparent ==
    \A p \in Procs :
        pc[p] \in {"inc_create", "inc_add", "get_read"} =>
            IF IsStale(LastEntry(call[p].key), call[p].now)
            THEN IsStale(call[p].e, call[p].now)
            ELSE call[p].e = LastEntry(call[p].key)

\* C33: whatever n the callers of FixedWindowLimiter.AllowN pass, the count
\* stored for a key stays between 0 and the Limit, and a call that returns
\* false leaves the count and the window start of its key as they were.
Cex_C33_CountInRange ==
    /\ [](\A k \in FWLKeys :
            fwl.windows[k] # NoEntry =>
                fwl.wd[fwl.windows[k]].count \in 0..FWLConfig.Limit)
    /\ [][\A p \in Procs :
            (pc[p] = "fwl_decide" /\ pc'[p] = "idle" /\ ~res'.allowed) =>
                /\ fwl'.wd[call[p].e].count = fwl.wd[call[p].e].count
                /\ fwl'.wd[call[p].e].startTime
                      = fwl.wd[call[p].e].startTime]_vars

\* C34: for a key whose window is still running, GetResult reports
\* Remaining = max(0, Limit - count), count being what the admitted AllowN
\* calls of that window have consumed.
Cex_C34_RemainingOfLiveWindow ==
    (/\ res.op = "getresult"
     /\ res.entry # NoEntry
     /\ res.now < res.expiry)
    => res.remaining = (IF fwl.config.Limit - res.count < 0
                        THEN 0 ELSE fwl.config.Limit - res.count)

\* what Allow(key) = AllowN(key, 1) returns when it reads the same now and
\* comes to the same windowData id as the GetResult it is compared with
\* (lines 40-72): that windowData, or a new one starting at now where the
\* key was absent, rolled over and tested for room
WouldAllow(id, now) ==
    LET w == IF id = NoEntry THEN [count |-> 0, startTime |-> now]
                             ELSE fwl.wd[id]
    IN  Fits(Rollover(w, now), 1)

\* C35: GetResult answers Allowed = true exactly when an Allow of the same
\* key at the same instant would return true, and it leaves every count
\* and window start, and the map, as they were.
Cex_C35_GetResultAgrees ==
    [][\A p \in Procs :
        (pc[p] \in {"gr_rlock", "gr_read"} /\ pc'[p] = "idle") =>
            /\ res'.allowed = WouldAllow(res'.entry, call[p].now)
            /\ fwl'.windows = fwl.windows
            /\ Len(fwl'.wd) = Len(fwl.wd)
            /\ \A i \in 1..Len(fwl.wd) :
                  /\ fwl'.wd[i].count = fwl.wd[i].count
                  /\ fwl'.wd[i].startTime = fwl.wd[i].startTime]_vars

====
